---- MODULE Spec2Model ----
(***************************************************************************)
(* A model of src/app.py (EnergyAnalyser: Data Consolidation).             *)
(*                                                                         *)
(* Text is modelled as a sequence of one-character strings, so that        *)
(* upper(), strip(), replace() and slicing are computed as Python computes *)
(* them.  Three specifications share the variables:                        *)
(*   SpecCol    the helper excel_col_to_index applied to typed-in column   *)
(*              letters (and to the letters of an index, for round trips)  *)
(*   SpecParse  process_uploaded_files on a batch of one file drawn from a *)
(*              rich set of tables and configurations                      *)
(*   Spec       process_uploaded_files on a batch of several files, then   *)
(*              the branch of the main script on its result                *)
(***************************************************************************)
EXTENDS Integers, Sequences, FiniteSets

VARIABLES
    col_str,         \* excel_col_to_index: the argument col_str
    col_res,         \* excel_col_to_index: the outcome of the call
    col_n,           \* the index whose letters were put in col_str (-1: typed by hand)
    pc,              \* "loop": inside process_uploaded_files; "done": the script has branched
    upload,          \* the file and configuration the loop is at (lines 54-56), or NoUpload
    files_done,      \* number of loop iterations of process_uploaded_files so far
    processed_data,  \* the dictionary processed_data: sheet name -> df_final
    last,            \* the file of the last iteration, its configuration and what happened
    n_passed,        \* number of iterations that reached line 139
    run              \* what the main script reported after the call

vars == <<col_str, col_res, col_n, pc, upload, files_done, processed_data, last, n_passed, run>>

colVars == <<col_str, col_res, col_n>>
batchVars == <<pc, upload, files_done, processed_data, last, n_passed, run>>

\* ------------------------------------------------------------------ bounds

\* Longest column-letter string typed in SpecCol.
MaxLen == 3
\* Largest index whose letters are converted back in SpecCol.
MaxIndex == 701
\* Most data rows of a file in SpecParse.
MaxRows == 2
\* Most files of a batch in Spec.
MaxFiles == 3

\* ------------------------------------------------------------------ characters

UpperLetters == <<"A","B","C","D","E","F","G","H","I","J","K","L","M",
                  "N","O","P","Q","R","S","T","U","V","W","X","Y","Z">>
LowerLetters == <<"a","b","c","d","e","f","g","h","i","j","k","l","m",
                  "n","o","p","q","r","s","t","u","v","w","x","y","z">>

PosIn(c, seq) == CHOOSE k \in 1..Len(seq) : seq[k] = c
IsIn(c, seq) == \E k \in 1..Len(seq) : seq[k] = c

\* The other characters the model uses, with their code points.
OtherChars == { <<"\t", 9>>, <<" ", 32>>, <<"-", 45>>, <<".", 46>>, <<"/", 47>>,
                <<"1", 49>>, <<":", 58>>, <<"_", 95>> }

Chars ==
    {UpperLetters[k] : k \in 1..26} \cup {LowerLetters[k] : k \in 1..26}
    \cup {e[1] : e \in OtherChars}

\* The code points, as a table.
CodePoint ==
    [c \in Chars |->
        IF IsIn(c, UpperLetters) THEN 64 + PosIn(c, UpperLetters)
        ELSE IF IsIn(c, LowerLetters) THEN 96 + PosIn(c, LowerLetters)
        ELSE (CHOOSE e \in OtherChars : e[1] = c)[2]]

\* Python's ord().
ord(c) == CodePoint[c]

\* str.upper(), character by character, as a table: a-z map to A-Z, every other
\* character of the model (all ASCII) to itself.
UpperTable ==
    [c \in Chars |->
        IF IsIn(c, LowerLetters) THEN <<UpperLetters[PosIn(c, LowerLetters)]>>
        ELSE <<c>>]

upper_char(c) == UpperTable[c]

RECURSIVE str_upper(_)
str_upper(s) == IF s = <<>> THEN <<>> ELSE upper_char(Head(s)) \o str_upper(Tail(s))

IsSpace(c) == c \in {" ", "\t"}

RECURSIVE lstrip(_)
lstrip(s) == IF s # <<>> /\ IsSpace(Head(s)) THEN lstrip(Tail(s)) ELSE s

RECURSIVE rstrip(_)
rstrip(s) ==
    IF s # <<>> /\ IsSpace(s[Len(s)]) THEN rstrip(SubSeq(s, 1, Len(s) - 1)) ELSE s

\* str.strip(): leading and trailing whitespace removed.
str_strip(s) == rstrip(lstrip(s))

\* ------------------------------------------------------------------ excel_col_to_index

\* The outcome of a call: a returned index, or a raised ValueError (index unused).
Returned(n) == [raised |-> FALSE, index |-> n]
ValueError == [raised |-> TRUE, index |-> 0]

\* Mutant of col_loop: the letter value taken 0-based (the "+ 1" of line 24 lost).
RECURSIVE col_loop_zero_based(_, _)
col_loop_zero_based(s, index) ==
    IF s = <<>> THEN Returned(index - 1)
    ELSE IF ord("A") <= ord(Head(s)) /\ ord(Head(s)) <= ord("Z")
         THEN col_loop_zero_based(Tail(s), index * 26 + (ord(Head(s)) - ord("A")))
         ELSE ValueError

\* Mutant of col_loop: only the upper end of the range tested (char <= 'Z').
RECURSIVE col_loop_no_lower_end(_, _)
col_loop_no_lower_end(s, index) ==
    IF s = <<>> THEN Returned(index - 1)
    ELSE IF ord(Head(s)) <= ord("Z")
         THEN col_loop_no_lower_end(Tail(s), index * 26 + (ord(Head(s)) - ord("A") + 1))
         ELSE ValueError

\* Mutant of col_loop: the 1-based index returned (the "- 1" of line 29 lost).
RECURSIVE col_loop_one_based(_, _)
col_loop_one_based(s, index) ==
    IF s = <<>> THEN Returned(index)
    ELSE IF ord("A") <= ord(Head(s)) /\ ord(Head(s)) <= ord("Z")
         THEN col_loop_one_based(Tail(s), index * 26 + (ord(Head(s)) - ord("A") + 1))
         ELSE ValueError

\* The for loop of lines 21-26 on the remaining characters, index so far.
RECURSIVE col_loop(_, _)
col_loop(s, index) ==
    IF s = <<>> THEN Returned(index - 1)
    ELSE IF ord("A") <= ord(Head(s)) /\ ord(Head(s)) <= ord("Z")
         THEN col_loop(Tail(s), index * 26 + (ord(Head(s)) - ord("A") + 1))
         ELSE ValueError

excel_col_to_index(s) == col_loop(str_strip(str_upper(s)), 0)

\* ------------------------------------------------------------------ index_to_letter

\* The inverse the specification names: bijective base 26, 0 -> A, 25 -> Z, 26 -> AA.
RECURSIVE index_to_letter(_)
index_to_letter(n) ==
    IF n < 26 THEN <<UpperLetters[n + 1]>>
    ELSE index_to_letter((n \div 26) - 1) \o <<UpperLetters[(n % 26) + 1]>>

\* ------------------------------------------------------------------ text helpers

Min(a, b) == IF a < b THEN a ELSE b

StartsWith(s, old) == Len(s) >= Len(old) /\ SubSeq(s, 1, Len(old)) = old

\* str.replace(old, new): every non-overlapping occurrence, left to right.
RECURSIVE str_replace(_, _, _)
str_replace(s, old, new) ==
    IF s = <<>> THEN <<>>
    ELSE IF StartsWith(s, old)
         THEN new \o str_replace(SubSeq(s, Len(old) + 1, Len(s)), old, new)
         ELSE <<Head(s)>> \o str_replace(Tail(s), old, new)

\* The slice s[:n].
str_prefix(s, n) == SubSeq(s, 1, Min(n, Len(s)))

\* Longest sheet name kept (line 136).
SheetNameMax == 31

\* Line 136: filename.replace('.csv', '').replace('.', '_').strip()[:31]
sheet_name_of(filename) ==
    str_prefix(
        str_strip(
            str_replace(str_replace(filename, <<".", "c", "s", "v">>, <<>>), <<".">>, <<"_">>)),
        SheetNameMax)

\* ------------------------------------------------------------------ cells and their parsers

\* DATE_FORMAT_MAP, lines 41-44.
DATE_FORMAT_MAP(selected) ==
    IF selected = "DD/MM/YYYY" THEN "%d/%m/%Y %H:%M:%S" ELSE "%Y-%m-%d %H:%M:%S"

\* The date texts of the model's files: the date format each one matches, and its date.
DateTexts == {
    [text |-> "01/02/2024", format |-> "%d/%m/%Y %H:%M:%S", date |-> <<2024, 2, 1>>],
    [text |-> "1/2/2024",   format |-> "%d/%m/%Y %H:%M:%S", date |-> <<2024, 2, 1>>],
    [text |-> "2024-02-02", format |-> "%Y-%m-%d %H:%M:%S", date |-> <<2024, 2, 2>>] }

\* The time texts of the model's files (%H:%M:%S) and their times.
TimeTexts == {
    [text |-> "10:00:00", time |-> <<10, 0, 0>>],
    [text |-> "9:05:00",  time |-> <<9, 5, 0>>] }

\* The numeric texts of the model's files and their values.
NumericTexts == {
    [text |-> "5", value |-> 5],
    [text |-> "-7", value |-> -7] }

\* A float of the PSum column: a number, or NaN.
Num(v) == [nan |-> FALSE, value |-> v]
NaNNum == [nan |-> TRUE, value |-> 0]

\* A value of a column of strings (Date, Time): a text, or NaN.
Str(chars) == [nan |-> FALSE, text |-> chars]
NaNStr == [nan |-> TRUE, text |-> <<>>]
\* pandas' NaT.
NaT == [nat |-> TRUE, date |-> <<0, 0, 0>>, time |-> <<0, 0, 0>>]

\* pd.to_numeric(errors='coerce') of one value (lines 107-110).
to_numeric(text) ==
    IF \E e \in NumericTexts : e.text = text
    THEN Num((CHOOSE e \in NumericTexts : e.text = text).value)
    ELSE NaNNum

\* pd.to_datetime(date + ' ' + time, errors='coerce', format=...) of one row
\* (lines 113-119): both parts must match the format, else NaT.
to_datetime(date_text, time_text, format) ==
    IF /\ \E d \in DateTexts : d.text = date_text /\ d.format = format
       /\ \E t \in TimeTexts : t.text = time_text
    THEN [nat |-> FALSE,
          date |-> (CHOOSE d \in DateTexts : d.text = date_text /\ d.format = format).date,
          time |-> (CHOOSE t \in TimeTexts : t.text = time_text).time]
    ELSE NaT

Digit(n) == <<"0", "1", "2", "3", "4", "5", "6", "7", "8", "9">>[n + 1]

\* Two digits, zero padded (%d, %m, %H, %M, %S).
Two(n) == <<Digit(n \div 10), Digit(n % 10)>>
Four(n) == <<Digit(n \div 1000), Digit((n \div 100) % 10), Digit((n \div 10) % 10), Digit(n % 10)>>

\* .dt.strftime('%d/%m/%Y') of one timestamp, as characters; NaN for NaT (line 130).
strftime_date(ts) ==
    IF ts.nat THEN NaNStr
    ELSE Str(Two(ts.date[3]) \o <<"/">> \o Two(ts.date[2]) \o <<"/">> \o Four(ts.date[1]))

\* .dt.strftime('%H:%M:%S') of one timestamp, as characters; NaN for NaT (line 131).
strftime_time(ts) ==
    IF ts.nat THEN NaNStr
    ELSE Str(Two(ts.time[1]) \o <<":">> \o Two(ts.time[2]) \o <<":">> \o Two(ts.time[3]))

\* ------------------------------------------------------------------ process_uploaded_files

(***************************************************************************)
(* An uploaded file is [name, read_error, ncols, rows]: its name as        *)
(* characters; the exception pd.read_csv raises on it ("none" when it      *)
(* reads); and the table read_csv returns under the file's delimiter and   *)
(* header row, ncols columns wide, each row a tuple of ncols texts.        *)
(* A configuration is [date_col_str, time_col_str, psum_col_str,           *)
(* selected_date_format].                                                  *)
(***************************************************************************)

Max3(a, b, c) ==
    IF a >= b /\ a >= c THEN a ELSE IF b >= c THEN b ELSE c

\* list(columns_to_extract.keys()), lines 65-70: a dict keeps one key per index, in
\* the order of first insertion.
col_indices_of(d, t, p) ==
    <<d>> \o (IF t = d THEN <<>> ELSE <<t>>) \o (IF p = d \/ p = t THEN <<>> ELSE <<p>>)

\* Mutant of three_unique: the check of line 73 never fires.
three_unique_unchecked(col_indices) == TRUE

\* Line 73 negated: len(set(col_indices)) = 3.
three_unique(col_indices) ==
    Cardinality({col_indices[k] : k \in 1..Len(col_indices)}) = 3

\* Line 92 negated: df_full.shape[1] >= max_index + 1.
enough_columns(ncols, max_index) == ~(ncols < max_index + 1)

\* .iloc[:, i] on one row: Python's positional indexing, negative from the end.
iloc(row, i) == IF i >= 0 THEN row[i + 1] ELSE row[Len(row) + i + 1]

\* Mutant of clean_psum: rows whose PSum is not numeric are removed (a dropna).
clean_psum_dropna(extracted) ==
    LET numeric(r) == ~to_numeric(r.PSum).nan
    IN  [k \in 1..Len(SelectSeq(extracted, numeric)) |->
            [SelectSeq(extracted, numeric)[k] EXCEPT !.PSum = to_numeric(@)]]

\* Lines 106-110: the PSum column through pd.to_numeric(errors='coerce').
clean_psum(extracted) ==
    [k \in 1..Len(extracted) |-> [extracted[k] EXCEPT !.PSum = to_numeric(@)]]

\* Lines 129-133: df_final, row for row of the extracted frame.
build_final(cleaned, datetime_series) ==
    [k \in 1..Len(cleaned) |->
        [Date |-> strftime_date(datetime_series[k]),
         Time |-> strftime_time(datetime_series[k]),
         PSum |-> cleaned[k].PSum]]

\* What one pass of the try block does: how it ends, whether pd.read_csv was
\* reached, and the frame stored at line 139.
Ended(how, read, df) == [how |-> how, read |-> read, df |-> df]

\* Lines 90-139, after the file has been read.
after_read(f, c, d, t, p) ==
    IF ~enough_columns(f.ncols, Max3(d, t, p))
    THEN Ended("too_few_columns", TRUE, <<>>)
    ELSE IF \E i \in {d, t, p} : i < -f.ncols
    THEN Ended("IndexError", TRUE, <<>>)
    ELSE IF Len(col_indices_of(d, t, p)) # 3
    THEN Ended("KeyError", TRUE, <<>>)   \* line 113: a column name is missing
    ELSE
      LET extracted == [k \in 1..Len(f.rows) |->
                          [Date |-> iloc(f.rows[k], d),
                           Time |-> iloc(f.rows[k], t),
                           PSum |-> iloc(f.rows[k], p)]]
          cleaned == clean_psum(extracted)
          datetime_series ==
              [k \in 1..Len(extracted) |->
                  to_datetime(extracted[k].Date, extracted[k].Time,
                              DATE_FORMAT_MAP(c.selected_date_format))]
          valid_dates_count == Cardinality({k \in 1..Len(extracted) : ~datetime_series[k].nat})
      IN  IF valid_dates_count = 0
          THEN Ended("no_valid_dates", TRUE, <<>>)
          ELSE Ended("ok", TRUE, build_final(cleaned, datetime_series))

\* Lines 58-139: the try block for one file and its configuration.
try_block(f, c) ==
    LET date_col_index == excel_col_to_index(c.date_col_str)
        time_col_index == excel_col_to_index(c.time_col_str)
        ps_um_col_index == excel_col_to_index(c.psum_col_str)
    IN  IF date_col_index.raised \/ time_col_index.raised \/ ps_um_col_index.raised
        THEN Ended("ValueError", FALSE, <<>>)
        ELSE IF ~three_unique(col_indices_of(date_col_index.index, time_col_index.index,
                                             ps_um_col_index.index))
        THEN Ended("duplicate", FALSE, <<>>)
        ELSE IF f.read_error # "none"
        THEN Ended(f.read_error, TRUE, <<>>)
        ELSE after_read(f, c, date_col_index.index, time_col_index.index,
                        ps_um_col_index.index)

\* The exceptions of the model that derive from Exception.
Exceptions == {"ValueError", "KeyError", "IndexError", "OSError"}

\* Mutant of except_clauses: only ValueError is handled.
except_value_error_only(how) ==
    IF how = "ValueError" THEN "config_error"
    ELSE IF how \in Exceptions THEN "uncaught"
    ELSE how

\* Lines 141-147: the status an iteration ends with. A raised ValueError is reported
\* as a configuration error, any other Exception as an unexpected error; both continue.
except_clauses(how) ==
    IF how = "ValueError" THEN "config_error"
    ELSE IF how \in Exceptions THEN "unexpected_error"
    ELSE how

\* Line 139: processed_data[sheet_name] = df_final.
store(data, sheet_name, df) ==
    [k \in DOMAIN data \cup {sheet_name} |-> IF k = sheet_name THEN df ELSE data[k]]

NoUpload == [file |-> "none"]

\* Lines 54-56: the loop takes the next file of uploaded_files and its configuration.
NextFile(f, c) ==
    /\ pc = "loop"
    /\ upload = NoUpload
    /\ upload' = [file |-> f, config |-> c]
    /\ UNCHANGED <<pc, files_done, processed_data, last, n_passed, run, colVars>>

\* Lines 58-147: the try block on that file and the except clauses.
ProcessFile ==
    /\ pc = "loop"
    /\ upload # NoUpload
    /\ \E ended \in {try_block(upload.file, upload.config)} :
         \E status \in {except_clauses(ended.how)},
            sheet_name \in {sheet_name_of(upload.file.name)} :
           /\ processed_data' =
                 IF status = "ok" THEN store(processed_data, sheet_name, ended.df)
                 ELSE processed_data
           /\ last' = [status |-> status, file |-> upload.file, config |-> upload.config,
                       read |-> ended.read, sheet_name |-> sheet_name]
           /\ n_passed' = IF status = "ok" THEN n_passed + 1 ELSE n_passed
           /\ pc' = IF status = "uncaught" THEN "aborted" ELSE "loop"
    /\ upload' = NoUpload
    /\ files_done' = files_done + 1
    /\ UNCHANGED <<run, colVars>>

\* Mutant of main_report: the error is reported as soon as one file failed.
main_report_all_or_nothing(data, n_files) ==
    IF Cardinality(DOMAIN data) = n_files
    THEN [report |-> "workbook", sheets |-> DOMAIN data,
          n_ok |-> Cardinality(DOMAIN data), n_files |-> n_files]
    ELSE [report |-> "error", sheets |-> {}, n_ok |-> 0, n_files |-> n_files]

\* Lines 290-335: the branch of the main script on the returned dictionary; the
\* success message of line 299 and the sheets to_excel writes (lines 165-166).
main_report(data, n_files) ==
    IF DOMAIN data # {}
    THEN [report |-> "workbook", sheets |-> DOMAIN data,
          n_ok |-> Cardinality(DOMAIN data), n_files |-> n_files]
    ELSE [report |-> "error", sheets |-> {}, n_ok |-> 0, n_files |-> n_files]

\* Line 149 and lines 285-335: the loop is over, the dictionary is returned and the
\* script reports. The button exists only when a file is uploaded (line 213).
Finish ==
    /\ pc = "loop"
    /\ upload = NoUpload
    /\ files_done >= 1
    /\ run' = main_report(processed_data, files_done)
    /\ pc' = "done"
    /\ UNCHANGED <<upload, files_done, processed_data, last, n_passed, colVars>>

\* ------------------------------------------------------------------ SpecCol

\* The characters typed into a column-letter box.
InputChars == {"A", "B", "I", "Z", "b", " ", "1", "-"}

RECURSIVE StringsUpTo(_, _)
StringsUpTo(chars, n) ==
    IF n = 0 THEN {<<>>}
    ELSE LET shorter == StringsUpTo(chars, n - 1)
         IN  shorter \cup {<<c>> \o s : c \in chars, s \in {t \in shorter : Len(t) = n - 1}}

NotCalled == [raised |-> FALSE, index |-> -2]

InitBatch ==
    /\ pc = "loop"
    /\ upload = NoUpload
    /\ files_done = 0
    /\ processed_data = <<>>
    /\ last = [status |-> "none"]
    /\ n_passed = 0
    /\ run = [report |-> "none"]

InitColVars ==
    /\ col_str = <<>>
    /\ col_res = NotCalled
    /\ col_n = -1

Init == InitColVars /\ InitBatch

\* SpecCol starts with a column letter typed into st.text_input, or with an index
\* whose letters are still to be written.
InitCol ==
    /\ \/ col_n = -1 /\ col_str \in StringsUpTo(InputChars, MaxLen)
       \/ col_n \in 0..MaxIndex /\ col_str = <<>>
    /\ col_res = NotCalled
    /\ InitBatch

\* The letters of the index col_n are written into col_str.
LettersOf ==
    /\ col_n >= 0
    /\ col_str = <<>>
    /\ col_str' = index_to_letter(col_n)
    /\ UNCHANGED <<col_n, col_res>>
    /\ UNCHANGED batchVars

\* excel_col_to_index(col_str) is called.
Convert ==
    /\ col_res = NotCalled
    /\ col_n = -1 \/ col_str # <<>>
    /\ col_res' = excel_col_to_index(col_str)
    /\ UNCHANGED <<col_str, col_n>>
    /\ UNCHANGED batchVars

NextCol == LettersOf \/ Convert

SpecCol == InitCol /\ [][NextCol]_vars

\* ------------------------------------------------------------------ Spec and SpecParse

RECURSIVE SeqsUpTo(_, _)
\* The sequences over S of length at most n.
SeqsUpTo(S, n) ==
    IF n = 0 THEN {<<>>}
    ELSE LET shorter == SeqsUpTo(S, n - 1)
         IN  shorter \cup {<<x>> \o q : x \in S, q \in {t \in shorter : Len(t) = n - 1}}

File(name, read_error, ncols, rows) ==
    [name |-> name, read_error |-> read_error, ncols |-> ncols, rows |-> rows]

Config(d, t, p, fmt) ==
    [date_col_str |-> d, time_col_str |-> t, psum_col_str |-> p,
     selected_date_format |-> fmt]

\* "a.b.csv" and "a_b.csv" (one sheet name, "a_b") and "m.csv".
FileNames == { <<"a", ".", "b", ".", "c", "s", "v">>,
               <<"a", "_", "b", ".", "c", "s", "v">>,
               <<"m", ".", "c", "s", "v">> }

\* pd.read_csv fails with a ValueError (pandas' EmptyDataError and ParserError are
\* ValueErrors) or with another exception.
ReadErrors == {"ValueError", "OSError"}

\* The files of a batch in Spec: one good row; a good row and a row whose date does
\* not parse; no row whose date parses; unreadable.
BatchTables == {
    << <<"01/02/2024", "10:00:00", "5">> >>,
    << <<"01/02/2024", "10:00:00", "5">>, <<"bad", "10:00:00", "-7">> >>,
    << <<"bad", "10:00:00", "5">> >> }

BatchFiles ==
    {File(n, "none", 3, rows) : n \in FileNames, rows \in BatchTables}
    \cup {File(n, e, 0, <<>>) : n \in FileNames, e \in ReadErrors}

\* Their configurations: A/B/C, a duplicate (A/A), a column past the end (D), a
\* column letter that is none ("1").
BatchConfigs ==
    {Config(<<"A">>, t, p, "DD/MM/YYYY") :
        t \in {<<"B">>, <<"A">>}, p \in {<<"C">>, <<"D">>, <<"1">>}}

\* The rows of the files of SpecParse: columns A, B, C hold a date, a time, a power.
ParseRows == {
    <<"01/02/2024", "10:00:00", "5">>,
    <<"2024-02-02", "9:05:00", "-7">>,
    <<"bad", "10:00:00", "5">>,
    <<"1/2/2024", "9:05:00", "bad">> }

ParseFiles ==
    {File(<<"m", ".", "c", "s", "v">>, "none", 3, rows) : rows \in SeqsUpTo(ParseRows, MaxRows)}
    \cup {File(<<"m", ".", "c", "s", "v">>, "none", 2, << <<"01/02/2024", "10:00:00">> >>)}
    \cup {File(<<"m", ".", "c", "s", "v">>, e, 0, <<>>) : e \in ReadErrors}

\* The column letters typed in SpecParse.
ParseRefs == {<<"A">>, <<"B">>, <<"C">>, <<"D">>, <<"b">>, <<"1">>, <<>>}

ParseConfigs ==
    {Config(d, t, p, fmt) : d \in ParseRefs, t \in ParseRefs, p \in ParseRefs,
                            fmt \in {"DD/MM/YYYY", "YYYY-MM-DD"}}

\* A batch of up to MaxFiles files, then the report.
Next ==
    \/ \E f \in BatchFiles, c \in BatchConfigs : files_done < MaxFiles /\ NextFile(f, c)
    \/ ProcessFile
    \/ Finish

Spec == Init /\ [][Next]_vars

\* A batch of one file: the loop is at its only file.
InitParse ==
    /\ InitColVars
    /\ pc = "loop"
    /\ upload \in {[file |-> f, config |-> c] : f \in ParseFiles, c \in ParseConfigs}
    /\ files_done = 0
    /\ processed_data = <<>>
    /\ last = [status |-> "none"]
    /\ n_passed = 0
    /\ run = [report |-> "none"]

NextParse == ProcessFile \/ Finish

SpecParse == InitParse /\ [][NextParse]_vars

\* ------------------------------------------------------------------ claims on SpecCol

Called == col_res # NotCalled

OnlyLetters(s) == \A k \in 1..Len(s) : IsIn(s[k], UpperLetters)

RECURSIVE Pow26(_)
Pow26(e) == IF e = 0 THEN 1 ELSE 26 * Pow26(e - 1)

RECURSIVE SumTo(_, _)
SumTo(s, k) ==
    IF k = 0 THEN 0
    ELSE SumTo(s, k - 1) + PosIn(s[k], UpperLetters) * Pow26(Len(s) - k)

\* The column number of a string of letters, A = 1 .. Z = 26, by place value.
PositionalValue(s) == SumTo(s, Len(s))

\* C1: for every non-empty string of letters A-Z, excel_col_to_index returns the
\* base-26 positional value (A = 1 .. Z = 26) minus one; "A" gives 0, "Z" 25,
\* "AA" 26 and "BI" 60.
C1_PositionalValue ==
    /\ (Called /\ col_str # <<>> /\ OnlyLetters(col_str))
          => col_res = Returned(PositionalValue(col_str) - 1)
    /\ (Called /\ col_str = <<"A">>) => col_res = Returned(0)
    /\ (Called /\ col_str = <<"Z">>) => col_res = Returned(25)
    /\ (Called /\ col_str = <<"A", "A">>) => col_res = Returned(26)
    /\ (Called /\ col_str = <<"B", "I">>) => col_res = Returned(60)

C1_Witness == col_n = -1 /\ col_str = <<"B", "I">> /\ col_res = Returned(60)

\* C6 as claimed: every string holding a character other than A-Z is rejected
\* with ValueError.
C6_AnyOtherCharacterRaises ==
    (Called /\ ~OnlyLetters(col_str)) => col_res.raised

\* C6 amended: every string that still holds a character other than A-Z after
\* upper-casing and stripping surrounding whitespace is rejected with ValueError.
C6_OtherCharacterAfterNormalising ==
    (Called /\ ~OnlyLetters(str_strip(str_upper(col_str)))) => col_res.raised

C6_Witness == col_str = <<"A", "1">> /\ Called /\ col_res.raised

\* C7: for every index n in 0..MaxIndex, excel_col_to_index(index_to_letter(n)) = n.
C7_RoundTrip ==
    (Called /\ col_n >= 0) => col_res = Returned(col_n)

C7_Witness == col_n = 701 /\ col_str = <<"Z", "Z">> /\ col_res = Returned(701)

\* C9: excel_col_to_index raises ValueError or returns an index >= 0; it never
\* returns a negative index, the empty and the all-whitespace string included.
C9_NeverNegative ==
    (Called /\ ~col_res.raised) => col_res.index >= 0
\* ------------------------------------------------------------------ claims on SpecParse and Spec

\* An iteration of the loop has run; last describes it.
Processed == last.status # "none"

DateIndex == excel_col_to_index(last.config.date_col_str)
TimeIndex == excel_col_to_index(last.config.time_col_str)
PSumIndex == excel_col_to_index(last.config.psum_col_str)

\* The three column letters of the last file all resolve to an index.
AllResolve == ~DateIndex.raised /\ ~TimeIndex.raised /\ ~PSumIndex.raised

PairwiseDistinct ==
    /\ DateIndex.index # TimeIndex.index
    /\ DateIndex.index # PSumIndex.index
    /\ TimeIndex.index # PSumIndex.index

\* The frame stored for the last file.
LastFrame == processed_data[last.sheet_name]

\* C2: when the Date, Time and Power letters of a file resolve to indices that are
\* not pairwise distinct, the file is rejected as a duplicate mapping before
\* pd.read_csv is reached, and it adds no entry to the result.
C2_DuplicateRejectedBeforeRead ==
    (Processed /\ AllResolve /\ ~PairwiseDistinct)
        => /\ last.status = "duplicate"
           /\ ~last.read
           /\ DOMAIN processed_data = {}

C2_Witness ==
    /\ Processed
    /\ last.config.date_col_str = <<"b">>
    /\ last.config.time_col_str = <<"B">>
    /\ last.config.psum_col_str = <<"C">>
    /\ last.file.read_error = "none"
    /\ last.status = "duplicate"

\* The date and time of row k of the last file, parsed as its configuration says.
ParsedRow(k) ==
    to_datetime(iloc(last.file.rows[k], DateIndex.index),
                iloc(last.file.rows[k], TimeIndex.index),
                DATE_FORMAT_MAP(last.config.selected_date_format))

\* K: the rows of the last file whose date/time combination does not parse.
UnparseableRows == {k \in 1..Len(last.file.rows) : ParsedRow(k).nat}

\* C3: a file with R data rows, K of them with an unparseable date/time (K < R),
\* yields exactly R - K output rows, none of them with a missing Date or Time.
C3_DropAccounting ==
    (Processed /\ last.status = "ok")
        => /\ Len(LastFrame) = Len(last.file.rows) - Cardinality(UnparseableRows)
           /\ \A j \in 1..Len(LastFrame) : ~LastFrame[j].Date.nan /\ ~LastFrame[j].Time.nan

IsNumericText(text) == \E e \in NumericTexts : e.text = text
ValueOfText(text) == (CHOOSE e \in NumericTexts : e.text = text).value

\* The raw power text of row k of the last file.
RawPower(k) == iloc(last.file.rows[k], PSumIndex.index)

\* C8: a non-numeric power value never raises and never drops its row: the row
\* stays at its position with its parsed Date and Time and a missing power, and
\* the rows with a numeric power keep their value.
C8_NonNumericPowerKept ==
    /\ (Processed /\ last.status = "ok")
         => /\ Len(LastFrame) = Len(last.file.rows)
            /\ \A k \in 1..Len(last.file.rows) :
                 /\ LastFrame[k].PSum =
                       IF IsNumericText(RawPower(k)) THEN Num(ValueOfText(RawPower(k)))
                       ELSE NaNNum
                 /\ LastFrame[k].Date = strftime_date(ParsedRow(k))
                 /\ LastFrame[k].Time = strftime_time(ParsedRow(k))
    /\ (Processed /\ last.status \in {"config_error", "unexpected_error"})
         => (~AllResolve \/ last.file.read_error # "none")

C8_Witness ==
    /\ Processed
    /\ last.status = "ok"
    /\ Len(LastFrame) = 2
    /\ RawPower(1) = "bad" /\ LastFrame[1].PSum.nan /\ ~LastFrame[1].Date.nan
    /\ RawPower(2) = "-7" /\ LastFrame[2].PSum = Num(-7)

\* C4: a file that fails, for whatever reason, adds no entry to the result and
\* leaves the loop running for the files after it; the batch is never aborted.
C4_FailureIsolated ==
    /\ [](pc # "aborted")
    /\ [][(files_done' = files_done + 1 /\ last'.status # "ok")
            => (processed_data' = processed_data /\ pc' = "loop" /\ upload' = NoUpload)]_vars

\* Two files of a batch failed and the file after them was stored.
C4_Witness ==
    /\ files_done = 3
    /\ n_passed = 1
    /\ last.status = "ok"
    /\ DOMAIN processed_data = {last.sheet_name}

\* C5: the run reports the hard failure exactly when no file was processed
\* successfully, that is exactly when the returned dictionary is empty; otherwise
\* it yields a workbook whose sheets are the entries of the dictionary.
C5_HardFailureOnlyWhenEmpty ==
    pc = "done"
        => /\ run.report = "error" <=> n_passed = 0
           /\ run.report = "error" <=> DOMAIN processed_data = {}
           /\ run.report = "workbook" <=> n_passed >= 1
           /\ run.report = "workbook" => (run.sheets = DOMAIN processed_data /\ run.sheets # {})

C5_Witness ==
    /\ pc = "done"
    /\ files_done = 3
    /\ n_passed = 1
    /\ run.report = "workbook"

\* C10: every file that passed all checks keeps its own entry: the number of
\* entries of the result is the number of files that passed.
C10_OneEntryPerPassedFile ==
    Cardinality(DOMAIN processed_data) = n_passed
====
